---- MODULE Spec2Model ----
(***************************************************************************)
(* A model of src/main.py: the paginated ingestion script that reads the   *)
(* API endpoint from config/api.conf, GETs one page at a time, writes each *)
(* page's `results` to data/<date>/<last-item-id>.json and follows the     *)
(* page's `next` link.                                                     *)
(*                                                                         *)
(* Python dicts are records whose DOMAIN is the set of keys present, so    *)
(* dict.get(k) is a domain test; Python str values that get split are      *)
(* sequences of one-character strings; None is the string None.            *)
(***************************************************************************)
EXTENDS Integers, Sequences, FiniteSets, TLC

VARIABLES
    config,     \* the file config/api.conf as the process finds it
    nextOf,     \* the server: the `next` link of the page served at each URL
    today,      \* the day datetime.now() falls on
    dirs,       \* the days d for which the directory data/<d>/ exists
    files,      \* path <<d, id>> -> the JSON content of data/<d>/<id>.json
    pc,         \* where the process is: a statement of main or of __main__
    url,        \* main's local `url`
    data,       \* main's local `data`
    err,        \* the exception caught by main's handler, or NoError
    status,     \* the status code of the last HTTP response received
    requested,  \* the URLs an HTTP GET was issued to
    events,     \* the last two I/O events: GETs and file writes
    logged,     \* the kinds of log record emitted
    exitCode,   \* the exit status of the process, or NotExited
    last        \* library use: the last direct call of load_data

vars == <<config, nextOf, today, dirs, files, pc, url, data, err, status,
          requested, events, logged, exitCode, last>>

-----------------------------------------------------------------------------
(* Bounds of the model *)

\* the API serves this many distinct page URLs
NumPages == 2
\* the clock can pass this many midnights
MaxDay == 1
\* a response handed to load_data directly holds at most this many items
MaxResults == 2
\* load_data is called directly at most this many times
MaxCalls == 2

(* Program constants *)

\* get_api_url's default limit
DefaultLimit == 50
\* the only status get_data accepts
StatusOk == 200

-----------------------------------------------------------------------------
(* Values *)

None == "None"
NoError == "none"
NotExited == -1
NoStatus == 0

\* the value of api_url in config/api.conf
BaseUrl == "https://api.test/items/?limit="

Days == 0..MaxDay

\* config/api.conf: missing, without [api], with [api] but no api_url, complete
ConfigFiles ==
    { [exists |-> FALSE, sections |-> <<>>],
      [exists |-> TRUE, sections |-> <<>>],
      [exists |-> TRUE, sections |-> [api |-> [timeout |-> "5"]]],
      [exists |-> TRUE, sections |-> [api |-> [api_url |-> BaseUrl]]] }

\* item urls, as Python strings: "p/7/", "q/7/", "p/4/", "7" and "/"
Url7 == <<"p", "/", "7", "/">>
Url7b == <<"q", "/", "7", "/">>
Url4 == <<"p", "/", "4", "/">>
UrlShort == <<"7">>

Item7 == [url |-> Url7]
Item7b == [name |-> "b", url |-> Url7b]
Item4 == [url |-> Url4]
ItemShort == [url |-> UrlShort]
ItemNoUrl == [name |-> "x"]

-----------------------------------------------------------------------------
(* str.split(sep) and negative indexing *)

RECURSIVE SplitFrom(_, _, _)
SplitFrom(s, sep, cur) ==
    IF s = <<>> THEN <<cur>>
    ELSE IF Head(s) = sep THEN <<cur>> \o SplitFrom(Tail(s), sep, <<>>)
    ELSE SplitFrom(Tail(s), sep, Append(cur, Head(s)))

split(s, sep) == SplitFrom(s, sep, <<>>)

\* seq[-k] is defined when the sequence has at least k elements
HasIndexFromEnd(seq, k) == Len(seq) >= k
IndexFromEnd(seq, k) == seq[Len(seq) - k + 1]

\* dict.get(key): the value, or None when the key is absent
HasKey(d, key) == key \in DOMAIN d

\* `not v` for a value that is None or a str
Falsy(v) == v = None \/ v = ""

-----------------------------------------------------------------------------
(* The filesystem under data/ *)

NoFiles == <<>>
FilePath(date, id) == <<date, id>>
Exists(fs, path) == path \in DOMAIN fs

\* mutant: the file is opened with 'a', so a second dump lands after the first
WriteFile_append(fs, path, content) ==
    [q \in DOMAIN fs \cup {path} |->
        IF q # path THEN fs[q]
        ELSE IF Exists(fs, path) THEN fs[path] \o content ELSE content]

\* open(path, 'w') and json.dump: create the file or replace its content
WriteFile(fs, path, content) ==
    [q \in DOMAIN fs \cup {path} |-> IF q = path THEN content ELSE fs[q]]

\* Path.mkdir(parents=True, exist_ok=True)
Mkdir(ds, date) == ds \cup {date}

-----------------------------------------------------------------------------
(* get_api_url: the first page's URL, from config/api.conf *)

\* mutant: a missing section or key falls back to a built-in endpoint
get_api_url_fallback(limit, cfg) ==
    IF ~cfg.exists
    THEN [err |-> "FileNotFoundError", value |-> None]
    ELSE IF ~HasKey(cfg.sections, "api") \/ ~HasKey(cfg.sections.api, "api_url")
    THEN [err |-> NoError, value |-> BaseUrl \o ToString(limit)]
    ELSE [err |-> NoError, value |-> cfg.sections.api.api_url \o ToString(limit)]

\* ConfigParser.get raises NoSectionError or NoOptionError, which are not
\* KeyErrors: the handler on line 33 does not catch them and they propagate.
get_api_url(limit, cfg) ==
    IF ~cfg.exists
    THEN [err |-> "FileNotFoundError", value |-> None]
    ELSE IF ~HasKey(cfg.sections, "api")
    THEN [err |-> "NoSectionError", value |-> None]
    ELSE IF ~HasKey(cfg.sections.api, "api_url")
    THEN [err |-> "NoOptionError", value |-> None]
    ELSE [err |-> NoError, value |-> cfg.sections.api.api_url \o ToString(limit)]

-----------------------------------------------------------------------------
(* get_data: one HTTP GET *)

Statuses == {200, 201, 204, 404, 500}

NoResponse == [kind |-> "none", status |-> NoStatus, valid |-> FALSE, json |-> <<>>]
ConnectionFailure ==
    [kind |-> "ConnectionError", status |-> NoStatus, valid |-> FALSE, json |-> <<>>]

\* lines 54-55: the URL the request goes to
Target(api_url, cfg) ==
    IF api_url = None
    THEN get_api_url(DefaultLimit, cfg)
    ELSE [err |-> NoError, value |-> api_url]

\* mutant: any 2xx status is accepted
get_data_2xx(api_url, cfg, resp) ==
    LET t == Target(api_url, cfg) IN
    IF t.err # NoError
    THEN [err |-> t.err, get |-> None, status |-> NoStatus, ret |-> <<>>]
    ELSE IF resp.kind = "ConnectionError"
    THEN [err |-> "ConnectionError", get |-> t.value, status |-> NoStatus, ret |-> <<>>]
    ELSE IF resp.status < 200 \/ resp.status >= 300
    THEN [err |-> "HTTPError", get |-> t.value, status |-> resp.status, ret |-> <<>>]
    ELSE IF ~resp.valid
    THEN [err |-> "JSONDecodeError", get |-> t.value, status |-> resp.status, ret |-> <<>>]
    ELSE [err |-> NoError, get |-> t.value, status |-> resp.status, ret |-> resp.json]

\* resp is what requests.get meets at the target; it is not consulted when the
\* URL cannot be resolved
get_data(api_url, cfg, resp) ==
    LET t == Target(api_url, cfg) IN
    IF t.err # NoError
    THEN [err |-> t.err, get |-> None, status |-> NoStatus, ret |-> <<>>]
    ELSE IF resp.kind = "ConnectionError"
    THEN [err |-> "ConnectionError", get |-> t.value, status |-> NoStatus, ret |-> <<>>]
    ELSE IF resp.status # StatusOk
    THEN [err |-> "HTTPError", get |-> t.value, status |-> resp.status, ret |-> <<>>]
    ELSE IF ~resp.valid
    THEN [err |-> "JSONDecodeError", get |-> t.value, status |-> resp.status, ret |-> <<>>]
    ELSE [err |-> NoError, get |-> t.value, status |-> resp.status, ret |-> resp.json]

-----------------------------------------------------------------------------
(* load_data: write one page's results *)

NoPath == <<>>

\* mutant: the identifier is the last segment of the url, not the one before
load_data_last_segment(d, date, ds, fs) ==
    LET folder == Mkdir(ds, date) IN
    IF ~HasKey(d, "results") \/ d.results = <<>>
    THEN [err |-> "ValueError", dirs |-> folder, files |-> fs, path |-> NoPath]
    ELSE
      LET last_pokemon == IndexFromEnd(d.results, 1) IN
      IF ~HasKey(last_pokemon, "url")
      THEN [err |-> "AttributeError", dirs |-> folder, files |-> fs, path |-> NoPath]
      ELSE
        LET parts == split(last_pokemon.url, "/") IN
        IF ~HasIndexFromEnd(parts, 1)
        THEN [err |-> "IndexError", dirs |-> folder, files |-> fs, path |-> NoPath]
        ELSE
          LET last_id == IndexFromEnd(parts, 1)
              file_path == FilePath(date, last_id)
          IN [err |-> NoError, dirs |-> folder,
              files |-> WriteFile(fs, file_path, d.results), path |-> file_path]

load_data(d, date, ds, fs) ==
    LET folder == Mkdir(ds, date) IN
    IF ~HasKey(d, "results") \/ d.results = <<>>
    THEN [err |-> "ValueError", dirs |-> folder, files |-> fs, path |-> NoPath]
    ELSE
      LET last_pokemon == IndexFromEnd(d.results, 1) IN
      IF ~HasKey(last_pokemon, "url")
      THEN [err |-> "AttributeError", dirs |-> folder, files |-> fs, path |-> NoPath]
      ELSE
        LET parts == split(last_pokemon.url, "/") IN
        IF ~HasIndexFromEnd(parts, 2)
        THEN [err |-> "IndexError", dirs |-> folder, files |-> fs, path |-> NoPath]
        ELSE
          LET last_id == IndexFromEnd(parts, 2)
              file_path == FilePath(date, last_id)
          IN [err |-> NoError, dirs |-> folder,
              files |-> WriteFile(fs, file_path, d.results), path |-> file_path]

-----------------------------------------------------------------------------
(* The server *)

FirstUrl == BaseUrl \o ToString(DefaultLimit)
PageUrl(n) == "https://api.test/items/?page=" \o ToString(n)
Urls == {FirstUrl} \cup {PageUrl(n) : n \in 2..NumPages}

\* a page's `next`: no such key, null, an empty string, or a page URL
AbsentKey == "<absent>"
NextLinks == {AbsentKey, None, ""} \cup Urls

\* the `results` a page can carry
ApiResults ==
    { <<>>, <<Item7>>, <<Item4>>, <<Item4, Item7b>>, <<Item7, ItemShort>>,
      <<ItemNoUrl>> }

\* the JSON bodies that carry the link n: with and without `results`
Pages(n) ==
    LET link == IF n = AbsentKey THEN <<>> ELSE [next |-> n]
    IN {link} \cup {[results |-> r] @@ link : r \in ApiResults}

\* what a GET of u can meet: no connection, or any status with a body that
\* is not JSON or is one of the pages of u
Server(u) ==
    {ConnectionFailure}
    \cup {[kind |-> "response", status |-> s, valid |-> FALSE, json |-> <<>>] :
            s \in Statuses}
    \cup {[kind |-> "response", status |-> s, valid |-> TRUE, json |-> p] :
            s \in Statuses, p \in Pages(nextOf[u])}

Offered(api_url, cfg) ==
    IF Target(api_url, cfg).err = NoError
    THEN Server(Target(api_url, cfg).value)
    ELSE {NoResponse}

-----------------------------------------------------------------------------
(* Events: the window of the last two GETs and writes *)

GetEvent(u) == [kind |-> "GET", url |-> u, path |-> NoPath]
WriteEvent(path) == [kind |-> "write", url |-> None, path |-> path]
Record(evs, e) == IF Len(evs) < 2 THEN Append(evs, e) ELSE <<evs[2], e>>

-----------------------------------------------------------------------------
(* main and __main__ *)

NoCall ==
    [n |-> 0, err |-> NoError, date |-> 0, path |-> NoPath, results |-> <<>>,
     replaced |-> <<>>]

Init ==
    /\ config \in ConfigFiles
    /\ nextOf \in [Urls -> NextLinks]
    /\ today \in Days
    /\ dirs = {}
    /\ files = NoFiles
    /\ pc = "get_data"
    /\ url = None
    /\ data = <<>>
    /\ err = NoError
    /\ status = NoStatus
    /\ requested = {}
    /\ events = <<>>
    /\ logged = {}
    /\ exitCode = NotExited
    /\ last = NoCall

\* mutant: the handler logs the error and goes round the loop again
except_Exception_continue(e) ==
    /\ err' = e
    /\ logged' = logged \cup {"error"}
    /\ pc' = "get_data"

\* lines 111-113: log the error and break
except_Exception(e) ==
    /\ err' = e
    /\ logged' = logged \cup {"error"}
    /\ pc' = "failed"

\* line 101
main_get_data ==
    /\ pc = "get_data"
    /\ \E resp \in Offered(url, config) :
         LET out == get_data(url, config, resp) IN
         /\ requested' = IF out.get = None THEN requested
                         ELSE requested \cup {out.get}
         /\ events' = IF out.get = None THEN events
                      ELSE Record(events, GetEvent(out.get))
         /\ status' = out.status
         /\ IF out.err # NoError
            THEN except_Exception(out.err) /\ data' = data
            ELSE /\ data' = out.ret
                 /\ pc' = "load_data"
                 /\ UNCHANGED <<err, logged>>
    /\ UNCHANGED <<config, nextOf, today, dirs, files, url, exitCode, last>>

\* mutant: a page that cannot be written is skipped and its link followed
main_load_data_skip ==
    /\ pc = "load_data"
    /\ LET out == load_data(data, today, dirs, files) IN
         /\ dirs' = out.dirs
         /\ files' = out.files
         /\ IF out.err # NoError
            THEN /\ err' = out.err
                 /\ logged' = logged \cup {"error"}
                 /\ pc' = "next"
                 /\ events' = events
            ELSE /\ events' = Record(events, WriteEvent(out.path))
                 /\ pc' = "next"
                 /\ UNCHANGED <<err, logged>>
    /\ UNCHANGED <<config, nextOf, today, url, data, status, requested,
                   exitCode, last>>

\* line 102
main_load_data ==
    /\ pc = "load_data"
    /\ LET out == load_data(data, today, dirs, files) IN
         /\ dirs' = out.dirs
         /\ files' = out.files
         /\ IF out.err # NoError
            THEN except_Exception(out.err) /\ events' = events
            ELSE /\ events' = Record(events, WriteEvent(out.path))
                 /\ pc' = "next"
                 /\ UNCHANGED <<err, logged>>
    /\ UNCHANGED <<config, nextOf, today, url, data, status, requested,
                   exitCode, last>>

\* mutant: the link is logged but `url` is not set to it
main_next_stale_url ==
    /\ pc = "next"
    /\ LET next_url == IF HasKey(data, "next") THEN data.next ELSE None IN
         IF Falsy(next_url)
         THEN /\ logged' = logged \cup {"no more pages"}
              /\ pc' = "done"
              /\ url' = url
         ELSE /\ url' = url
              /\ logged' = logged \cup {"fetching next page"}
              /\ pc' = "get_data"
    /\ UNCHANGED <<config, nextOf, today, dirs, files, data, err, status,
                   requested, events, exitCode, last>>

\* lines 103-109
main_next ==
    /\ pc = "next"
    /\ LET next_url == IF HasKey(data, "next") THEN data.next ELSE None IN
         IF Falsy(next_url)
         THEN /\ logged' = logged \cup {"no more pages"}
              /\ pc' = "done"
              /\ url' = url
         ELSE /\ url' = next_url
              /\ logged' = logged \cup {"fetching next page"}
              /\ pc' = "get_data"
    /\ UNCHANGED <<config, nextOf, today, dirs, files, data, err, status,
                   requested, events, exitCode, last>>

\* lines 146-147: main has returned, by either break
finish ==
    /\ pc \in {"done", "failed"}
    /\ exitCode = NotExited
    /\ logged' = logged \cup {"finished with success"}
    /\ exitCode' = 0
    /\ UNCHANGED <<config, nextOf, today, dirs, files, pc, url, data, err,
                   status, requested, events, last>>

\* midnight passes: datetime.now() is read anew by every load_data
Tick ==
    /\ today < MaxDay
    /\ today' = today + 1
    /\ UNCHANGED <<config, nextOf, dirs, files, pc, url, data, err, status,
                   requested, events, logged, exitCode, last>>

\* the steps of the script
Run == main_get_data \/ main_load_data \/ main_next \/ finish

Next == Run \/ Tick

Spec == Init /\ [][Next]_vars

\* the interpreter runs the one thread of the script until it exits; the
\* day does not change during the run
FairSpec == Init /\ [][Run]_vars /\ WF_vars(Run)

\* the states of the driver loop
LoopState ==
    IF pc = "done" THEN "DONE" ELSE IF pc = "failed" THEN "FAILED"
    ELSE "FETCHING"

-----------------------------------------------------------------------------
(* load_data called directly, as a library function *)

Items == {Item7, Item4, ItemShort, ItemNoUrl}

RECURSIVE SeqsUpTo(_, _)
SeqsUpTo(S, n) ==
    IF n = 0 THEN {<<>>}
    ELSE LET shorter == SeqsUpTo(S, n - 1)
         IN shorter \cup {Append(q, x) : q \in {r \in shorter : Len(r) = n - 1}, x \in S}

\* the responses handed to load_data: no `results`, or up to MaxResults items
Responses == {<<>>} \cup {[results |-> r] : r \in SeqsUpTo(Items, MaxResults)}

\* data/ before the calls: empty, or holding a file of an earlier run
EarlierFile == FilePath(0, <<"4">>)
EarlierRuns ==
    { [dirs |-> {}, files |-> NoFiles],
      [dirs |-> {0}, files |-> WriteFile(NoFiles, EarlierFile, <<Item4>>)] }

InitLibrary ==
    /\ config \in {c \in ConfigFiles : get_api_url(DefaultLimit, c).err = NoError}
    /\ nextOf = [u \in Urls |-> None]
    /\ today \in Days
    /\ \E fs \in EarlierRuns : dirs = fs.dirs /\ files = fs.files
    /\ pc = "library"
    /\ url = None
    /\ data = <<>>
    /\ err = NoError
    /\ status = NoStatus
    /\ requested = {}
    /\ events = <<>>
    /\ logged = {}
    /\ exitCode = NotExited
    /\ last = NoCall

call_load_data ==
    /\ pc = "library"
    /\ last.n < MaxCalls
    /\ \E d \in Responses :
         LET out == load_data(d, today, dirs, files) IN
         /\ dirs' = out.dirs
         /\ files' = out.files
         /\ data' = d
         /\ last' = [n |-> last.n + 1, err |-> out.err, date |-> today,
                     path |-> out.path,
                     results |-> IF HasKey(d, "results") THEN d.results ELSE <<>>,
                     replaced |-> IF Exists(files, out.path)
                                  THEN files[out.path] ELSE <<>>]
    /\ UNCHANGED <<config, nextOf, today, pc, url, err, status, requested,
                   events, logged, exitCode>>

NextLibrary == call_load_data \/ Tick

LibrarySpec == InitLibrary /\ [][NextLibrary]_vars

-----------------------------------------------------------------------------
(* Vocabulary of the properties *)

\* the step is main's call of get_data, of load_data, the reading of `next`
GetDataStep == pc = "get_data" /\ today' = today
LoadDataStep == pc = "load_data" /\ today' = today
NextStep == pc = "next" /\ today' = today
\* the step is a direct call of load_data
CallStep == pc = "library" /\ last'.n = last.n + 1

LastEvent(evs) == evs[Len(evs)]

\* `results` is present and holds at least one item
HasResults(d) == HasKey(d, "results") /\ Len(d.results) > 0

\* the last item of `results` has a url in which a "/" occurs
LastUrlHasSlash(d) ==
    /\ HasResults(d)
    /\ HasKey(d.results[Len(d.results)], "url")
    /\ \E i \in 1..Len(d.results[Len(d.results)].url) :
         d.results[Len(d.results)].url[i] = "/"

\* the step wrote a file that holds the results of the page in `data`
PagePersisted ==
    /\ events' # events
    /\ LastEvent(events').kind = "write"
    /\ Exists(files', LastEvent(events').path)
    /\ HasKey(data, "results")
    /\ files'[LastEvent(events').path] = data.results

\* the step raised an error into main's handler
Raises == err = NoError /\ err' # NoError

ConfigMissing == {"FileNotFoundError"}
ConfigKeyMissing == {"NoSectionError", "NoOptionError"}

Terminated == pc \in {"done", "failed"}

\* following the `next` links from the first page never leads back to a page
\* already visited
RECURSIVE ChainEnds(_, _)
ChainEnds(u, seen) ==
    IF u \in seen THEN FALSE
    ELSE IF Falsy(nextOf[u]) \/ nextOf[u] = AbsentKey THEN TRUE
    ELSE ChainEnds(nextOf[u], seen \cup {u})

NoLinkCycle == ChainEnds(FirstUrl, {})

-----------------------------------------------------------------------------
(* The claims *)

\* C1, as stated: main's call of load_data writes a file holding the page's
\* results if and only if `results` is present and non-empty, and a page that
\* is not persisted sends the loop to FAILED.
C1_PersistedIffResults ==
    [][LoadDataStep =>
         /\ PagePersisted <=> HasResults(data)
         /\ ~PagePersisted => LoopState' = "FAILED"]_vars

\* C1, amended: main's call of load_data writes a file holding the page's
\* results if and only if `results` is present and non-empty and the url of
\* its last item contains a "/"; a page that is not persisted sends the loop
\* to FAILED.
C1_PersistedIffWellFormed ==
    [][LoadDataStep =>
         /\ PagePersisted <=> LastUrlHasSlash(data)
         /\ ~PagePersisted => LoopState' = "FAILED"]_vars

\* a page of two items has been persisted
C1_Witness ==
    /\ pc = "next"
    /\ HasResults(data)
    /\ Len(data.results) = 2
    /\ LastEvent(events).kind = "write"
    /\ files[LastEvent(events).path] = data.results

\* C2: a step in which get_data or load_data raises puts the loop in FAILED
\* and writes no file; once an error was raised the loop stays in FAILED and
\* no further GET is issued and no file is written.
C2_ErrorStopsLoop ==
    [][/\ Raises => (LoopState' = "FAILED" /\ files' = files)
       /\ err # NoError =>
            /\ LoopState' = "FAILED"
            /\ files' = files
            /\ requested' = requested
            /\ events' = events]_vars

\* the second page's GET failed after the first page was persisted, and the
\* process has exited
C2_Witness ==
    /\ pc = "failed"
    /\ err = "HTTPError"
    /\ Cardinality(requested) = 2
    /\ DOMAIN files # {}
    /\ exitCode # NotExited

\* C3, as stated: after a page is persisted, the loop goes to DONE when
\* `next` is absent or null and otherwise stays in FETCHING with the next
\* GET going to exactly `next`; in DONE no GET is issued.
C3_NextAbsentOrNull ==
    [][/\ NextStep =>
            IF ~HasKey(data, "next") \/ data.next = None
            THEN LoopState' = "DONE"
            ELSE LoopState' = "FETCHING" /\ url' = data.next
       /\ (GetDataStep /\ url # None) =>
            /\ events' # events
            /\ LastEvent(events') = GetEvent(data.next)
       /\ pc = "done" => (requested' = requested /\ events' = events)]_vars

\* C3, amended: after a page is persisted, the loop goes to DONE when `next`
\* is absent, null or the empty string, and otherwise stays in FETCHING with
\* the next GET going to exactly `next`; in DONE no GET is issued.
C3_NextFalsy ==
    [][/\ NextStep =>
            IF ~HasKey(data, "next") \/ data.next = None \/ data.next = ""
            THEN LoopState' = "DONE"
            ELSE LoopState' = "FETCHING" /\ url' = data.next
       /\ (GetDataStep /\ url # None) =>
            /\ events' # events
            /\ LastEvent(events') = GetEvent(data.next)
       /\ pc = "done" => (requested' = requested /\ events' = events)]_vars

\* the link of the first page was followed and the second page ended the run
C3_Witness ==
    /\ pc = "done"
    /\ requested = {FirstUrl, PageUrl(2)}
    /\ LastEvent(events).kind = "write"
    /\ ~HasKey(data, "next")

\* C4: a process that has exited after the loop reached FAILED has not
\* reported success: it has no success record in its log and a non-zero exit
\* status.
C4_FailureReported ==
    (exitCode # NotExited /\ LoopState = "FAILED") =>
        ("finished with success" \notin logged /\ exitCode # 0)

\* C5: GETs and file writes alternate, starting with a GET, and a GET for a
\* followed link is issued only when the last event is the write of the file
\* that holds the results of the page the link came from.
C5_Alternation ==
    /\ Len(events) >= 1 => (events[1].kind = "GET" \/ Len(events) = 2)
    /\ Len(events) = 2 => events[1].kind # events[2].kind
    /\ (pc = "get_data" /\ url # None) =>
         /\ LastEvent(events).kind = "write"
         /\ HasKey(data, "results")
         /\ files[LastEvent(events).path] = data.results
         /\ data.next = url

\* the second page has been fetched right after the write of the first
C5_Witness ==
    /\ pc = "load_data"
    /\ Len(events) = 2
    /\ events[1].kind = "write"
    /\ events[2] = GetEvent(PageUrl(2))

\* C6: a response whose status is not 200 makes get_data raise HTTPError, and
\* get_data returns a page only after a response with status 200.
C6_Strict200 ==
    /\ status \notin {NoStatus, StatusOk} => (pc = "failed" /\ err = "HTTPError")
    /\ pc = "load_data" => status = StatusOk

\* a 201 response was refused
C6_Witness == status = 201 /\ err = "HTTPError" /\ pc = "failed"

C8_LastWriteWins ==
    [][(/\ CallStep
        /\ last.n >= 1 /\ last.err = NoError /\ last'.err = NoError
        /\ last'.date = last.date /\ last'.path = last.path) =>
          /\ DOMAIN files' = DOMAIN files
          /\ files' = [files EXCEPT ![last.path] = last'.results]
          /\ files'[last.path] = data'.results]_vars

\* the second call replaced what the first had written, beside an older file
C8_Witness ==
    /\ last.n = 2
    /\ last.err = NoError
    /\ Exists(files, EarlierFile)
    /\ last.path # EarlierFile
    /\ last.replaced \notin {<<>>, last.results}
    /\ files[last.path] = last.results
    /\ Cardinality(DOMAIN files) = 2

\* C9, as stated: every run of the loop eventually reaches DONE or FAILED.
C9_Terminates == <>Terminated

\* C9, amended: every run of the loop eventually reaches DONE or FAILED when
\* following the `next` links from the first page never leads back to a page
\* already visited.
C9_TerminatesWithoutCycle == NoLinkCycle => <>Terminated

\* every page was fetched along the links and the run is DONE
C9_Witness ==
    /\ NoLinkCycle
    /\ pc = "done"
    /\ requested = Urls
    /\ Cardinality(DOMAIN files) >= 2

\* C10: a direct call of load_data that fails with ValueError leaves the
\* files and the directories under data/ as they were.
C10_FailureLeavesNoTrace ==
    [][(CallStep /\ last'.err = "ValueError") =>
         (files' = files /\ dirs' = dirs)]_vars

====
